---- MODULE Spec2Model ----
(***************************************************************************)
(* Sandboxed live preview and console relay of the playground editor:      *)
(* App.tsx (host state and handlers), PreviewPanel.tsx (document composer, *)
(* iframe, message listener), useCodeHistory (undo/redo stack).            *)
(*                                                                         *)
(* The host page, the iframe and the cross-window message queue are one    *)
(* state machine.  A host handler together with the React re-render and    *)
(* commit it causes is one action; the passive effect that follows a       *)
(* commit (useEffect) is flushed later by the scheduler and is an action   *)
(* of its own, as are the iframe's navigation, its timer callbacks and the *)
(* delivery of one posted message.                                         *)
(***************************************************************************)
EXTENDS Integers, Sequences, FiniteSets, TLC

\* ------------------------------------------------------------------ bounds
MaxReq == 2       \* render requests (mount, source changes, refresh clicks)
MaxClock == 1     \* last reading of the millisecond clock
MaxForeign == 1   \* messages posted to the host window by other senders
MaxHistory == 2   \* entries of the undo/redo history
MaxTabs == 1      \* tabs opened with "Open in New Tab"
MaxBurst == 3     \* render requests of one typing session (mount, then edits)
MaxEdits == 4     \* render requests of one editing session with undo and uploads
MaxEntries == 3   \* entries the history list may grow to, and its index
MaxLogs == 2      \* records in the console log while the preview keeps logging
MaxCalls == 3     \* calls that change the stored snippet list
AutoSaveInterval == 5   \* ticks of the auto-save interval: the 30 s of
                        \* useAutoSave({ interval: 30000 }) cut down, still
                        \* longer than the debounce delay

\* ------------------------------------------------------- program constants
\* Durations are counted in ticks of 250 ms.
SaveDelay == 2    \* useDebouncedEffect(..., 500, ...): 500 ms

\* ------------------------------------------------------------------- state
VARIABLES
  html, css, javascript,  \* App: the three source buffers
  consoleLogs,            \* App: the log sequence shown by ConsolePanel
  history, currentIndex,  \* useCodeHistory (currentIndex counts from 0)
  hostTitle,              \* a piece of host-page state: document.title
  listenerThrew,          \* an exception escaped the host's message listener
  srcdoc,                 \* iframe: value of its srcdoc attribute
  nav,                    \* iframe: navigation scheduled by the last srcdoc write
  inst,                   \* iframe: the document instance now loaded
  refreshDue,             \* PreviewPanel: effect [html, css, javascript] not yet flushed
  channel,                \* message events queued for the host window, FIFO
  now,                    \* millisecond clock of host and iframe: its last reading
  foreignPosted,          \* messages delivered so far from other senders
  currentView,            \* App: 'editor' (PreviewPanel mounted) or 'history'
  listeners,              \* host window: registered 'message' listeners of PreviewPanel
  tabs,                   \* the documents opened in new tabs
  saveTimer,              \* useDebouncedEffect: <<>> or <<ticks left>> of the history-save timeout
  autoTimer,              \* useAutoSave: <<>> or <<ticks left>> of the auto-save timeout
  upload,                 \* useFileUpload: <<>> or <<the upload being read>>, with the handlers' closure
  autoSaveEnabled,        \* App: the 'gb-coder-autosave-enabled' flag
  lastContentRef,         \* useAutoSave: hash of the content saved last
  lastSaveTime,           \* useAutoSave: null or the timestamp of the last save
  isSaving,               \* useAutoSave
  saving,                 \* useAutoSave: <<>> or <<the save operation awaiting the server>>
  savedRows,              \* the rows of the code_files table
  lastSaved,              \* history variable: <<>> or <<the bundle whose files were all stored last>>
  snippets,               \* useLocalStorage: storedValue of 'gb-coder-snippets' as rendered
  storage,                \* localStorage: <<>> or <<the item stored under 'gb-coder-snippets'>>
  importing,              \* SnippetsSidebar: <<>> or <<the import being read>>, with its onSave closure
  calls,                  \* history variable: the updaters passed to setSnippets so far, in order
  gen,                    \* history variable: srcdoc writes so far
  reqs,                   \* history variable: the render requests so far
  sent,                   \* history variable: the messages the iframe posted
  relayed,                \* history variable: the messages the listener handled, and during which request
  last                    \* history variable: the handler that has just emptied a non-empty log

hostVars == <<html, css, javascript, consoleLogs, history, currentIndex,
              hostTitle, listenerThrew>>
frameVars == <<srcdoc, nav, inst, refreshDue, channel>>
ghostVars == <<gen, reqs, sent, relayed, last>>
panelVars == <<currentView, listeners, tabs>>
timerVars == <<saveTimer, autoTimer>>
hookVars == <<upload, autoSaveEnabled, lastContentRef, lastSaveTime, isSaving, saving,
              savedRows, lastSaved, snippets, storage, importing, calls>>
vars == <<hostVars, frameVars, now, foreignPosted, panelVars, timerVars, hookVars, ghostVars>>

\* --------------------------------------------------------------- JS values
\* A JavaScript value: its typeof-like tag t, its text v, and for an object
\* its single own property name k (v is then the property's numeric value).
JSUndefined == [t |-> "undefined", v |-> "", k |-> ""]
JSNull == [t |-> "null", v |-> "", k |-> ""]
JSString(s) == [t |-> "string", v |-> s, k |-> ""]
JSNumber(s) == [t |-> "number", v |-> s, k |-> ""]
JSObject(key, num) == [t |-> "object", v |-> num, k |-> key]
\* An object whose property key refers to the object itself.
JSCircular(key) == [t |-> "object", v |-> "[Circular]", k |-> key]
Cyclic(arg) == arg.t = "object" /\ arg.v = "[Circular]"

\* String(arg) of a primitive.
String(arg) ==
  CASE arg.t = "undefined" -> "undefined"
    [] arg.t = "null" -> "null"
    [] OTHER -> arg.v

\* JSON.stringify(arg, null, 2) of a value whose typeof is 'object'; it
\* raises StringifyError for a cyclic object, see CallThrows.
StringifyError == "Converting circular structure to JSON"
JSONStringify2(arg) ==
  IF arg.t = "null" THEN "null"
  ELSE "{\n  \"" \o arg.k \o "\": " \o arg.v \o "\n}"

\* new Date().toISOString() and Date.now().toString() at clock reading t.
ToISOString(t) == "2024-01-01T00:00:00.00" \o ToString(t) \o "Z"
DateNowToString(t) == ToString(t)

\* ----------------------------------------------------------- source texts
defaultHTML == "<div class=\"container\"><h1>Welcome to GB Coder</h1></div>"
defaultCSS == ".container { max-width: 800px; }"
\* defaultJS, shortened to the first of its console calls.
defaultJS == "console.log('String log');"

brokenHTML == "<div><p>unclosed"
brokenCSS == "p { color: "
otherHTML == "<p>hi</p>"
otherCSS == "p { color: red; }"
jsBoom == "console.info('start'); throw new Error(\"boom\"); console.log('never');"
jsSyntax == "console.log('x'"
jsLevels == "console.log('a'); console.warn('b'); console.error('c'); console.info('d');"
jsArgs == "console.log('a', 1, {x: 1}); console.warn(); console.info(null, undefined, 'b c');"
jsCircular == "const o = {}; o.self = o; console.log('a', o); console.log('after');"
jsInterval == "setInterval(() => console.log('tick'), 250);"
jsLater == "window.parent.document.title = 'pwned'; setTimeout(() => console.warn('late', 1)); setTimeout(() => { throw new Error('async') });"

\* ------------------------------------------------------------ content hash
\* The character codes of a text, one per UTF-16 code unit.
Chars(text) ==
  CASE text = defaultHTML ->
       <<60, 100, 105, 118, 32, 99, 108, 97, 115, 115, 61, 34, 99, 111, 110,
         116, 97, 105, 110, 101, 114, 34, 62, 60, 104, 49, 62, 87, 101, 108,
         99, 111, 109, 101, 32, 116, 111, 32, 71, 66, 32, 67, 111, 100, 101,
         114, 60, 47, 104, 49, 62, 60, 47, 100, 105, 118, 62>>
    [] text = defaultCSS ->
       <<46, 99, 111, 110, 116, 97, 105, 110, 101, 114, 32, 123, 32, 109, 97,
         120, 45, 119, 105, 100, 116, 104, 58, 32, 56, 48, 48, 112, 120, 59,
         32, 125>>
    [] text = defaultJS ->
       <<99, 111, 110, 115, 111, 108, 101, 46, 108, 111, 103, 40, 39, 83,
         116, 114, 105, 110, 103, 32, 108, 111, 103, 39, 41, 59>>
    [] text = otherHTML ->
       <<60, 112, 62, 104, 105, 60, 47, 112, 62>>
    [] text = jsSyntax ->
       <<99, 111, 110, 115, 111, 108, 101, 46, 108, 111, 103, 40, 39, 120,
         39>>
    [] text = jsInterval ->
       <<115, 101, 116, 73, 110, 116, 101, 114, 118, 97, 108, 40, 40, 41, 32,
         61, 62, 32, 99, 111, 110, 115, 111, 108, 101, 46, 108, 111, 103, 40,
         39, 116, 105, 99, 107, 39, 41, 44, 32, 50, 53, 48, 41, 59>>
    [] text = "" -> <<>>

Base64Alphabet ==
  <<"A", "B", "C", "D", "E", "F", "G", "H", "I", "J", "K", "L", "M", "N", "O", "P",
    "Q", "R", "S", "T", "U", "V", "W", "X", "Y", "Z", "a", "b", "c", "d", "e", "f",
    "g", "h", "i", "j", "k", "l", "m", "n", "o", "p", "q", "r", "s", "t", "u", "v",
    "w", "x", "y", "z", "0", "1", "2", "3", "4", "5", "6", "7", "8", "9", "+", "/">>

Base64Digit(n) == Base64Alphabet[n + 1]

\* btoa(string) for a string of Latin-1 characters given by its codes: three
\* bytes become four digits, the last group is padded with "=".
btoa(bytes) ==
  LET n == Len(bytes)
      byte(i) == IF i <= n THEN bytes[i] ELSE 0
      digit(k) ==
        LET g == 3 * ((k - 1) \div 4)
            b1 == byte(g + 1)
            b2 == byte(g + 2)
            b3 == byte(g + 3)
        IN CASE (k - 1) % 4 = 0 -> Base64Digit(b1 \div 4)
             [] (k - 1) % 4 = 1 -> Base64Digit((b1 % 4) * 16 + b2 \div 16)
             [] (k - 1) % 4 = 2 ->
                  IF g + 2 > n THEN "=" ELSE Base64Digit((b2 % 16) * 4 + b3 \div 64)
             [] (k - 1) % 4 = 3 ->
                  IF g + 3 > n THEN "=" ELSE Base64Digit(b3 % 64)
  IN [k \in 1..(4 * ((n + 2) \div 3)) |-> digit(k)]

\* string.slice(0, n).
SliceTo(str, n) == SubSeq(str, 1, IF n < Len(str) THEN n ELSE Len(str))

\* createContentHash(h, c, j): btoa(h + c + j).slice(0, 16).
createContentHash(h, c, j) == SliceTo(btoa(Chars(h) \o Chars(c) \o Chars(j)), 16)

\* text.trim() is the empty string: the text has white space only.
IsBlank(text) == \A i \in DOMAIN Chars(text) : Chars(text)[i] \in {9, 10, 11, 12, 13, 32}

\* What the user types into the editors.
Typed == {[language |-> "javascript", text |-> jsSyntax],
          [language |-> "javascript", text |-> defaultJS],
          [language |-> "html", text |-> otherHTML],
          [language |-> "css", text |-> defaultCSS]}

SourceBundle(h, c, j) == [html |-> h, css |-> c, javascript |-> j]

\* Snippets and stored code files the user can load.
Snippets == {SourceBundle(otherHTML, otherCSS, jsBoom)}
CodeFiles == {[language |-> "javascript", code_content |-> jsLater]}

\* ---------------------------------------------------------------- composer
DocHead == "<!DOCTYPE html><html lang=\"en\"><head><style>body { margin: 0; }"
DocMid == "</style></head><body>"
DocScriptOpen == "<script>/* console shadowing, error listener */ try {"
DocTail == "} catch (error) { sendToParent('error', error.message); }</script></body></html>"

\* Variants of generatePreviewContent: the head carries the clock reading of
\* the moment of composing; the style sheet is left out.
generatePreviewContentStamped(h, c, j) ==
  <<DocHead \o "<!-- " \o ToString(now) \o " -->", c, DocMid, h, DocScriptOpen, j, DocTail>>
generatePreviewContentNoStyle(h, c, j) ==
  <<DocHead, "", DocMid, h, DocScriptOpen, j, DocTail>>

\* generatePreviewContent(): the template literal, as its fixed parts and the
\* three interpolated texts in document order.
generatePreviewContent(h, c, j) ==
  <<DocHead, c, DocMid, h, DocScriptOpen, j, DocTail>>

\* The sandbox attribute of the iframe element.
SandboxFlags == {"allow-scripts", "allow-same-origin"}

\* ------------------------------------------------- the script engine's view
Stmt(op, level, args, text) == [op |-> op, level |-> level, args |-> args, text |-> text]
Call(level, args) == Stmt("call", level, args, "")
Throw(msg) == Stmt("throw", "", <<>>, msg)
LaterCall(level, args) == Stmt("laterCall", level, args, "")
LaterThrow(msg) == Stmt("laterThrow", "", <<>>, msg)
Reach == Stmt("reach", "", <<>>, "")

\* What the script engine makes of a user text placed inside the try block:
\* whether the script element parses at all, and its statements.
ParseScript(j) ==
  CASE j = defaultJS -> [valid |-> TRUE,
          body |-> <<Call("log", <<JSString("String log")>>)>>]
    [] j = jsBoom -> [valid |-> TRUE,
          body |-> <<Call("info", <<JSString("start")>>), Throw("boom"),
                     Call("log", <<JSString("never")>>)>>]
    [] j = jsSyntax -> [valid |-> FALSE, body |-> <<>>]
    [] j = jsLevels -> [valid |-> TRUE,
          body |-> <<Call("log", <<JSString("a")>>), Call("warn", <<JSString("b")>>),
                     Call("error", <<JSString("c")>>), Call("info", <<JSString("d")>>)>>]
    [] j = jsArgs -> [valid |-> TRUE,
          body |-> <<Call("log", <<JSString("a"), JSNumber("1"), JSObject("x", "1")>>),
                     Call("warn", <<>>),
                     Call("info", <<JSNull, JSUndefined, JSString("b c")>>)>>]
    [] j = jsCircular -> [valid |-> TRUE,
          body |-> <<Call("log", <<JSString("a"), JSCircular("self")>>),
                     Call("log", <<JSString("after")>>)>>]
    [] j = "" -> [valid |-> TRUE, body |-> <<>>]
    [] j = jsLater -> [valid |-> TRUE,
          body |-> <<Reach, LaterCall("warn", <<JSString("late"), JSNumber("1")>>),
                     LaterThrow("async")>>]

\* ------------------------------------------------------- instrumentation
\* The data object sendToParent(type, message) posts at clock reading t.
sendToParent(type, message, t) ==
  [nullish |-> FALSE,
   type |-> JSString("console"),
   level |-> JSString(type),
   message |-> message,
   timestamp |-> JSString(ToISOString(t))]

RECURSIVE JoinArgs(_)
\* args.map(arg => typeof arg === 'object' ? JSON.stringify(arg, null, 2)
\*                                         : String(arg)).join(' ')
JoinArgs(args) ==
  IF args = <<>> THEN ""
  ELSE LET a == Head(args)
           s == IF a.t \in {"object", "null"} THEN JSONStringify2(a) ELSE String(a)
       IN IF Len(args) = 1 THEN s ELSE s \o " " \o JoinArgs(Tail(args))

\* Variant of consoleCall: every method posts at level log.
consoleCallAsLog(level, args, t) == sendToParent("log", JSString(JoinArgs(args)), t)

\* The shadowed console.<level>(...args).
consoleCall(level, args, t) == sendToParent(level, JSString(JoinArgs(args)), t)

\* The shadowed console method raises instead of posting: JSON.stringify
\* meets a cyclic object among the arguments.
CallThrows(args) == \E i \in DOMAIN args : Cyclic(args[i])

\* window 'error' listener: `${e.message} at ${e.filename}:${e.lineno}` for
\* an uncaught Error with message msg.
errorListener(msg, t) ==
  sendToParent("error", JSString("Uncaught Error: " \o msg \o " at about:srcdoc:75"), t)

\* Variant of guardedCatch: the clause reports and throws again, so the
\* window 'error' listener reports the same Error too.
guardedCatchRethrow(msg, t) ==
  <<[data |-> sendToParent("error", JSString(msg), t), via |-> "catch"],
    [data |-> errorListener(msg, t), via |-> "onerror"]>>

\* The catch clause of the guarded block, for a thrown Error with message
\* msg: the messages it causes, each with the path that produced it.
guardedCatch(msg, t) ==
  <<[data |-> sendToParent("error", JSString(msg), t), via |-> "catch"]>>

NoNav == [gen |-> 0, req |-> 0, doc |-> <<>>]
NoInstance == [gen |-> 0, req |-> 0, doc |-> <<>>, style |-> "", body |-> "",
               installed |-> FALSE, failure |-> "none", timers |-> <<>>, emitted |-> 0]

\* The sender of a message: which instance, of which render request, its
\* how-manieth message, and the path that produced it.  No program step
\* reads it (the messages carry no such tag).
Origin(g, r, n, via) == [gen |-> g, req |-> r, seq |-> n, via |-> via]

\* ---------------------------------------------------- running one document
RECURSIVE runGuarded(_, _, _, _)
\* try { ${javascript} } catch ...: the statements of body from the i-th on, at
\* clock reading t; acc collects the messages posted, the timers set, whether
\* the host page was written and how the block ended.
runGuarded(body, i, t, acc) ==
  IF i > Len(body) THEN acc
  ELSE LET s == body[i] IN
    CASE s.op = "call" /\ ~CallThrows(s.args) ->
           runGuarded(body, i + 1, t,
             [acc EXCEPT !.out = Append(@, [data |-> consoleCall(s.level, s.args, t),
                                            via |-> "console"])])
      [] s.op = "call" /\ CallThrows(s.args) ->
           [acc EXCEPT !.out = @ \o guardedCatch(StringifyError, t), !.failure = "throw"]
      [] s.op \in {"laterCall", "laterThrow"} ->
           runGuarded(body, i + 1, t, [acc EXCEPT !.timers = Append(@, s)])
      [] s.op = "reach" ->
           IF "allow-same-origin" \in SandboxFlags
           THEN runGuarded(body, i + 1, t, [acc EXCEPT !.reached = TRUE])
           ELSE [acc EXCEPT !.out = @ \o guardedCatch("Blocked a frame with origin \"null\" from accessing a cross-origin frame.", t),
                            !.failure = "throw"]
      [] s.op = "throw" ->
           [acc EXCEPT !.out = @ \o guardedCatch(s.text, t), !.failure = "throw"]

\* Evaluating a composed document in a fresh browsing context: the style and
\* body markup ahead of the script element are rendered, then the script
\* element runs as a whole, or not at all when it does not parse.
evaluateDocument(doc, t) ==
  LET prog == ParseScript(doc[6])
      run == IF prog.valid
             THEN runGuarded(prog.body, 1, t,
                    [out |-> <<>>, timers |-> <<>>, reached |-> FALSE, failure |-> "none"])
             ELSE [out |-> <<>>, timers |-> <<>>, reached |-> FALSE, failure |-> "syntax"]
  IN [style |-> doc[2], body |-> doc[4], installed |-> prog.valid, run |-> run]

\* The message events a batch of posted messages becomes, numbered from n + 1.
Events(out, g, r, n) ==
  [i \in 1..Len(out) |-> [data |-> out[i].data, origin |-> Origin(g, r, n + i, out[i].via)]]

Range(f) == {f[i] : i \in DOMAIN f}

\* What the history variable sent keeps of a posted message.
Sent(e) == [origin |-> e.origin, level |-> e.data.level, message |-> e.data.message]

\* ------------------------------------------------------------ host: relay
\* Variants of handleConsoleLog: the new record put first; the new record
\* replacing the sequence.
handleConsoleLogPrepend(prev, log) == <<log>> \o prev
handleConsoleLogLatestOnly(prev, log) == <<log>>

\* handleConsoleLog: setConsoleLogs(prev => [...prev, log]).
handleConsoleLog(prev, log) == Append(prev, log)

\* Variant of LogRecord: the record is stamped when the host handles the
\* message, not with the timestamp the message carries.
LogRecordStampedOnReceipt(event, t) ==
  [id |-> DateNowToString(t),
   type |-> event.data.level,
   message |-> event.data.message,
   timestamp |-> JSString(ToISOString(t)),
   origin |-> event.origin,
   stale |-> event.origin.gen < event.atGen]

\* The record handleMessage builds from an event at clock reading t.
LogRecord(event, t) ==
  [id |-> DateNowToString(t),
   type |-> event.data.level,
   message |-> event.data.message,
   timestamp |-> event.data.timestamp,
   origin |-> event.origin,
   stale |-> event.origin.gen < event.atGen]

\* Variant of handleMessage: a message of an instance older than the last
\* srcdoc write is dropped.
handleMessageCurrentOnly(logs, event, t) ==
  IF event.data.nullish THEN logs
  ELSE IF event.data.type = JSString("console") /\ event.origin.gen >= event.atGen
       THEN handleConsoleLog(logs, LogRecord(event, t))
       ELSE logs

\* handleMessage(event) at clock reading t: the log sequence afterwards.
\* event.origin and event.atGen stand for what the event says of its sender
\* and the moment of delivery; the handler reads only event.data, and the
\* record it builds is marked stale when a later srcdoc write preceded it.
handleMessage(logs, event, t) ==
  IF event.data.nullish THEN logs  \* event.data.type raises a TypeError
  ELSE IF event.data.type = JSString("console")
       THEN handleConsoleLog(logs, LogRecord(event, t))
       ELSE logs

\* Variant of ClearedLogs: only the oldest record goes.
ClearedLogsOldestOnly(prev) == IF prev = <<>> THEN <<>> ELSE Tail(prev)

\* clearConsoleLogs: setConsoleLogs([]).
ClearedLogs(prev) == <<>>

\* What other senders post to the host window.
ForeignData ==
  { [nullish |-> TRUE, type |-> JSUndefined, level |-> JSUndefined,
     message |-> JSUndefined, timestamp |-> JSUndefined],
    [nullish |-> FALSE, type |-> JSString("webpackOk"), level |-> JSUndefined,
     message |-> JSUndefined, timestamp |-> JSUndefined],
    [nullish |-> FALSE, type |-> JSString("console"), level |-> JSString("debug"),
     message |-> JSNumber("42"), timestamp |-> JSUndefined] }

\* The history variable last: the handler that has just emptied a non-empty
\* log sequence, "" after any other step.
NoLast == ""
Emptied(op) == IF consoleLogs # <<>> THEN op ELSE NoLast

\* The clock readings a step that reads the clock may get: time passes
\* between steps, never backwards.
Readings == now..MaxClock

\* ------------------------------------------------------------------- Init
\* After App and PreviewPanel have mounted: default buffers, the iframe
\* created with srcdoc={generatePreviewContent()}, the mount effects pending.
InitApp(h, c, j, enabled) ==
  /\ now = 0
  /\ html = h /\ css = c /\ javascript = j
  /\ consoleLogs = <<>>
  /\ history = <<[state |-> SourceBundle(h, c, j)]>>
  /\ currentIndex = 0
  /\ hostTitle = "GB Coder"
  /\ listenerThrew = FALSE
  /\ srcdoc = generatePreviewContent(h, c, j)
  /\ nav = [gen |-> 1, req |-> 1, doc |-> generatePreviewContent(h, c, j)]
  /\ inst = NoInstance
  /\ refreshDue = TRUE
  /\ channel = <<>>
  /\ foreignPosted = 0
  /\ currentView = "editor"
  /\ listeners = 1
  /\ tabs = <<>>
  /\ saveTimer = <<SaveDelay>>
  /\ autoTimer = IF enabled THEN <<AutoSaveInterval>> ELSE <<>>
  /\ upload = <<>>
  /\ autoSaveEnabled = enabled
  /\ lastContentRef = <<>>
  /\ lastSaveTime = JSNull
  /\ isSaving = FALSE
  /\ saving = <<>>
  /\ savedRows = {}
  /\ lastSaved = <<>>
  /\ snippets = <<>>
  /\ storage = <<>>
  /\ importing = <<>>
  /\ calls = <<>>
  /\ gen = 1
  /\ reqs = <<[kind |-> "mount", clean |-> FALSE]>>
  /\ sent = {}
  /\ relayed = {}
  /\ last = NoLast

\* Nothing stored under 'gb-coder-autosave-enabled': the flag starts true.
InitWith(h, c, j) == InitApp(h, c, j, TRUE)

Init == InitWith(defaultHTML, defaultCSS, defaultJS)

\* ---------------------------------------------------------- host: history
Min(a, b) == IF a < b THEN a ELSE b

\* The saveState made by a render in which currentIndex was index
\* (useCallback(..., [currentIndex])), called now:
\* setHistory(prev => [...prev.slice(0, currentIndex + 1), newEntry]) cuts
\* at the index the closure holds, setCurrentIndex(prev => prev + 1) counts
\* from the index of the moment.
saveStateOf(index, state) ==
  /\ history' = Append(SubSeq(history, 1, Min(index + 1, Len(history))), [state |-> state])
  /\ currentIndex' = currentIndex + 1

\* saveState(state) of the last render.
saveState(state) == saveStateOf(currentIndex, state)

canUndo == currentIndex > 0
canRedo == currentIndex < Len(history) - 1

\* currentState: history[currentIndex]?.state || initialState; initialState
\* is the hook's argument of this render, the three buffers.
currentState ==
  IF currentIndex >= 0 /\ currentIndex < Len(history)
  THEN history[currentIndex + 1].state
  ELSE SourceBundle(html, css, javascript)

\* undo() of a render with list h and index i: the change of the index it
\* queues, the state it returns (<<>> for null), and whether reading
\* history[currentIndex - 1].state raised a TypeError (no such entry).
undo(h, i) ==
  IF i > 0
  THEN [step |-> 0 - 1, result |-> IF i <= Len(h) THEN <<h[i].state>> ELSE <<>>,
        threw |-> i > Len(h)]
  ELSE [step |-> 0, result |-> <<>>, threw |-> FALSE]

\* redo() of a render with list h and index i.
redo(h, i) ==
  IF i < Len(h) - 1
  THEN [step |-> 1, result |-> <<h[i + 2].state>>, threw |-> FALSE]
  ELSE [step |-> 0, result |-> <<>>, threw |-> FALSE]

\* ------------------------------------------------- host: listener effect
\* handleConsoleLog is made with useCallback(..., []): App hands PreviewPanel
\* the same function on every render.
onConsoleLogChanged == FALSE

\* Variant of listenerEffect: no dependency array and no cleanup, every
\* render adds a listener.
listenerEffectEveryRender(n) == n + 1

\* useEffect(() => { addEventListener; return () => removeEventListener },
\* [onConsoleLog]) at a re-render of PreviewPanel, n listeners registered:
\* when the dependency changed, the cleanup removes the listener and the
\* effect registers the new one.
listenerEffect(n) == IF onConsoleLogChanged THEN (n - 1) + 1 ELSE n

\* A re-render of App re-runs the two timer effects.  useDebouncedEffect
\* depends on [callback, delay, ...deps] and App passes a new arrow function
\* as callback on every render; useAutoSave depends on [html, css,
\* javascript, interval, enabled, user] and useAuth() returns a new user
\* object on every call.  Both effects therefore run their cleanup
\* (clearTimeout) and their body (setTimeout; useAutoSave only while enabled)
\* after every render of App.
RestartTimers(enabled) ==
  /\ saveTimer' = <<SaveDelay>>
  /\ autoTimer' = IF enabled THEN <<AutoSaveInterval>> ELSE <<>>

\* PreviewPanel re-renders with App while it is mounted.
RenderPanel ==
  /\ listeners' = IF currentView = "editor" THEN listenerEffect(listeners) ELSE listeners
  /\ UNCHANGED <<currentView, tabs>>

\* A host handler's state update re-renders App, and PreviewPanel while it
\* is mounted.
Rerender ==
  /\ RenderPanel
  /\ RestartTimers(autoSaveEnabled)
  /\ UNCHANGED hookVars

\* --------------------------------------------------- host: render, commit
\* No message in flight, no navigation or effect pending, no timer left in
\* the loaded instance: whatever the loaded document had to say was relayed.
Quiet ==
  /\ channel = <<>> /\ nav = NoNav /\ ~refreshDue
  /\ inst.gen # 0 /\ inst.timers = <<>>

\* The buffers become h, c, j (setHtml, setCss, setJavascript) and App and
\* PreviewPanel re-render.  When a buffer changed, the commit writes the new
\* srcdoc={generatePreviewContent()} attribute, which navigates the iframe,
\* and schedules the effect of PreviewPanel.tsx:112.  When none changed the
\* attribute is not touched.  An effect still pending from the previous
\* commit is flushed ahead of this render; the navigation it starts is
\* replaced at once by the one of this commit.
\* limit caps the number of render requests of a behaviour.
SetBuffersWithin(h, c, j, limit) ==
  /\ html' = h /\ css' = c /\ javascript' = j
  /\ IF <<h, c, j>> = <<html, css, javascript>>
     THEN UNCHANGED <<srcdoc, nav, refreshDue, gen, reqs>>
     ELSE /\ Len(reqs) < limit
          /\ srcdoc' = generatePreviewContent(h, c, j)
          /\ nav' = [gen |-> gen + 1, req |-> Len(reqs) + 1,
                     doc |-> generatePreviewContent(h, c, j)]
          /\ refreshDue' = TRUE
          /\ gen' = gen + 1
          /\ reqs' = Append(reqs, [kind |-> "change", clean |-> Quiet])

SetBuffers(h, c, j) == SetBuffersWithin(h, c, j, MaxReq)

\* Variant of refreshPreview: the write calls off the navigation under way
\* and starts none.
refreshPreviewNoNavigate(r) ==
  /\ srcdoc' = generatePreviewContent(html, css, javascript)
  /\ nav' = NoNav
  /\ gen' = gen + 1

\* Variant of refreshPreview: the attribute is rewritten but the document
\* already in the iframe is kept, no navigation is started.
refreshPreviewInPlace(r) ==
  /\ srcdoc' = generatePreviewContent(html, css, javascript)
  /\ nav' = nav
  /\ gen' = gen + 1

\* refreshPreview(): iframeRef.current.srcdoc = generatePreviewContent().
\* Writing the attribute navigates the iframe also when the value is the same.
refreshPreview(r) ==
  /\ srcdoc' = generatePreviewContent(html, css, javascript)
  /\ nav' = [gen |-> gen + 1, req |-> r,
             doc |-> generatePreviewContent(html, css, javascript)]
  /\ gen' = gen + 1

\* useEffect(() => refreshPreview(), [html, css, javascript]), flushed.
RefreshEffect ==
  /\ refreshDue
  /\ refreshPreview(Len(reqs))
  /\ refreshDue' = FALSE
  /\ last' = NoLast
  /\ UNCHANGED <<hostVars, inst, channel, now, foreignPosted, reqs, sent, relayed>>
  /\ Rerender

\* The "Refresh Preview" button.
RefreshClick ==
  /\ Len(reqs) < MaxReq
  /\ refreshPreview(Len(reqs) + 1)
  /\ reqs' = Append(reqs, [kind |-> "refresh", clean |-> Quiet])
  /\ last' = NoLast
  /\ UNCHANGED <<hostVars, inst, refreshDue, channel, now, foreignPosted, sent, relayed>>
  /\ currentView = "editor"
  /\ Rerender

\* ------------------------------------------------------------ host: edits
\* EditorPanel onChange={setHtml | setCss | setJavascript}: the user's edit
\* leaves text in the editor of language.
onChange(limit) ==
  \E e \in Typed :
    /\ SetBuffersWithin(IF e.language = "html" THEN e.text ELSE html,
                        IF e.language = "css" THEN e.text ELSE css,
                        IF e.language = "javascript" THEN e.text ELSE javascript,
                        limit)
    /\ SourceBundle(html', css', javascript') # SourceBundle(html, css, javascript)
    /\ last' = NoLast
    /\ UNCHANGED <<consoleLogs, history, currentIndex, hostTitle, listenerThrew,
                   inst, channel, now, foreignPosted, sent, relayed>>
    /\ currentView = "editor"
    /\ Rerender

EditorChange == onChange(MaxReq)

\* A run of edits of one typing session.
Typing == onChange(MaxBurst)

\* clearConsoleLogs(), the X button of ConsolePanel.
clearConsoleLogs ==
  /\ consoleLogs' = ClearedLogs(consoleLogs)
  /\ last' = Emptied("clearConsoleLogs")
  /\ UNCHANGED <<html, css, javascript, history, currentIndex, hostTitle, listenerThrew,
                 frameVars, now, foreignPosted, gen, reqs, sent, relayed>>
  /\ Rerender

\* handleCommand(command) for the two commands that touch the modelled state:
\* 'run' does setConsoleLogs([]), 'clear' calls clearConsoleLogs().
handleCommand ==
  \E cmd \in {"run", "clear"} :
    /\ consoleLogs' = IF cmd = "run" THEN <<>> ELSE ClearedLogs(consoleLogs)
    /\ last' = Emptied("handleCommand")
    /\ UNCHANGED <<html, css, javascript, history, currentIndex, hostTitle, listenerThrew,
                   frameVars, now, foreignPosted, gen, reqs, sent, relayed>>
    /\ Rerender

\* loadSnippet(snippet).
loadSnippet ==
  \E s \in Snippets :
    /\ currentIndex + 1 < MaxHistory
    /\ saveState(SourceBundle(html, css, javascript))
    /\ SetBuffers(s.html, s.css, s.javascript)
    /\ consoleLogs' = <<>>
    /\ last' = Emptied("loadSnippet")
    /\ UNCHANGED <<hostTitle, listenerThrew, inst, channel, now, foreignPosted, sent, relayed>>
    /\ Rerender

\* loadCodeFile(codeFile).
loadCodeFile ==
  \E f \in CodeFiles :
    /\ currentIndex + 1 < MaxHistory
    /\ saveState(SourceBundle(html, css, javascript))
    /\ SetBuffers(IF f.language = "html" THEN f.code_content ELSE html,
                  IF f.language = "css" THEN f.code_content ELSE css,
                  IF f.language = "javascript" THEN f.code_content ELSE javascript)
    /\ consoleLogs' = <<>>
    /\ last' = Emptied("loadCodeFile")
    /\ UNCHANGED <<hostTitle, listenerThrew, inst, channel, now, foreignPosted, sent, relayed>>
    /\ Rerender

\* resetCode().
resetCode ==
  /\ currentIndex + 1 < MaxHistory
  /\ saveState(SourceBundle(html, css, javascript))
  /\ SetBuffers(defaultHTML, defaultCSS, defaultJS)
  /\ consoleLogs' = <<>>
  /\ last' = Emptied("resetCode")
  /\ UNCHANGED <<hostTitle, listenerThrew, inst, channel, now, foreignPosted, sent, relayed>>
  /\ Rerender

\* A handler that set no state: nothing re-renders, no effect runs.
NoRender == UNCHANGED <<panelVars, timerVars, hookVars>>

\* handleUndo(): undo() steps the index back and returns that entry's state,
\* or null at the first entry; a returned state is written to the buffers.
handleUndoWithin(limit) ==
  LET u == undo(history, currentIndex) IN
  /\ currentIndex' = currentIndex + u.step
  /\ IF u.result # <<>>
     THEN SetBuffersWithin(u.result[1].html, u.result[1].css, u.result[1].javascript, limit)
     ELSE UNCHANGED <<html, css, javascript, srcdoc, nav, refreshDue, gen, reqs>>
  /\ last' = NoLast
  /\ UNCHANGED <<consoleLogs, history, hostTitle, listenerThrew, inst, channel, now,
                 foreignPosted, sent, relayed>>
  /\ IF u.step # 0 THEN Rerender ELSE NoRender

handleUndo == handleUndoWithin(MaxReq)

\* handleRedo().
handleRedoWithin(limit) ==
  LET r == redo(history, currentIndex) IN
  /\ currentIndex' = currentIndex + r.step
  /\ IF r.result # <<>>
     THEN SetBuffersWithin(r.result[1].html, r.result[1].css, r.result[1].javascript, limit)
     ELSE UNCHANGED <<html, css, javascript, srcdoc, nav, refreshDue, gen, reqs>>
  /\ last' = NoLast
  /\ UNCHANGED <<consoleLogs, history, hostTitle, listenerThrew, inst, channel, now,
                 foreignPosted, sent, relayed>>
  /\ IF r.step # 0 THEN Rerender ELSE NoRender

handleRedo == handleRedoWithin(MaxReq)

\* ------------------------------------------------ host: debounced history
\* The timeout of useDebouncedEffect runs the callback of the render that
\* set it: when a buffer differs from currentState, saveCodeHistory of that
\* render stores the buffers, and App re-renders.
debouncedSave ==
  /\ saveTimer = <<0>>
  /\ IF SourceBundle(html, css, javascript) # currentState
     THEN /\ Len(history) < MaxEntries /\ currentIndex < MaxEntries
          /\ saveState(SourceBundle(html, css, javascript))
          /\ Rerender
     ELSE /\ saveTimer' = <<>>
          /\ UNCHANGED <<history, currentIndex, autoTimer, panelVars, hookVars>>
  /\ last' = NoLast
  /\ UNCHANGED <<html, css, javascript, consoleLogs, hostTitle, listenerThrew, frameVars,
                 now, foreignPosted, gen, reqs, sent, relayed>>

\* The ticks left on the armed timers.
Remaining == {t[1] : t \in {saveTimer, autoTimer} \ {<<>>}}

Elapse(timer, d) == IF timer = <<>> THEN <<>> ELSE <<timer[1] - d>>

\* Time passes, by one tick or up to the moment the earliest armed timer
\* expires; an expired timer runs before more time passes.
Tick ==
  /\ Remaining # {} /\ 0 \notin Remaining
  /\ \E d \in Remaining \cup {1} :
       /\ \A r \in Remaining : d <= r
       /\ saveTimer' = Elapse(saveTimer, d)
       /\ autoTimer' = Elapse(autoTimer, d)
  /\ last' = NoLast
  /\ UNCHANGED <<hostVars, frameVars, now, foreignPosted, panelVars, hookVars,
                 gen, reqs, sent, relayed>>

\* -------------------------------------------------------- host: auto-save
Languages == <<"html", "css", "javascript">>

\* The files a save of bundle b attempts: if (html.trim()) ..., if
\* (css.trim()) ..., if (javascript.trim()) ...
Attempted(b) == {l \in Range(Languages) : ~IsBlank(b[l])}

\* The rows saveCodeFile inserts for the files of b the server stores.
Rows(b, stored) == {[language |-> l, code_content |-> b[l]] : l \in stored}

\* A state update of useAutoSave re-renders App.
RenderSave ==
  /\ RenderPanel
  /\ RestartTimers(autoSaveEnabled)
  /\ UNCHANGED <<upload, autoSaveEnabled, snippets, storage, importing, calls>>

\* The auto-save timeout runs performAutoSave of the render that set it, up
\* to its first await: nothing to do when the hash is the one saved last,
\* else setIsSaving(true) and the saveCodeFile calls go out.  The model
\* follows one save operation at a time.
performAutoSave ==
  /\ autoTimer = <<0>>
  /\ saving = <<>>
  /\ IF ~autoSaveEnabled
        \/ createContentHash(html, css, javascript) = lastContentRef
     THEN /\ autoTimer' = <<>>
          /\ UNCHANGED <<now, saveTimer, panelVars, hookVars>>
     ELSE /\ \E t \in Readings :
               /\ now' = t
               /\ saving' = <<[kind |-> "auto",
                               bundle |-> SourceBundle(html, css, javascript),
                               hash |-> createContentHash(html, css, javascript),
                               timestamp |-> JSString(ToISOString(t))]>>
          /\ isSaving' = TRUE
          /\ UNCHANGED <<lastContentRef, lastSaveTime, savedRows, lastSaved>>
          /\ RenderSave
  /\ last' = NoLast
  /\ UNCHANGED <<hostVars, frameVars, foreignPosted, gen, reqs, sent, relayed>>

\* handleManualSave() -> manualSave() up to its first await.
manualSave ==
  /\ saving = <<>>
  /\ \E t \in Readings :
       /\ now' = t
       /\ saving' = <<[kind |-> "manual",
                       bundle |-> SourceBundle(html, css, javascript),
                       hash |-> createContentHash(html, css, javascript),
                       timestamp |-> JSString(ToISOString(t))]>>
  /\ isSaving' = TRUE
  /\ UNCHANGED <<lastContentRef, lastSaveTime, savedRows, lastSaved>>
  /\ RenderSave
  /\ last' = NoLast
  /\ UNCHANGED <<hostVars, frameVars, foreignPosted, gen, reqs, sent, relayed>>

\* The saveCodeFile calls of the operation under way have returned, the
\* files in stored with { error: null }, the others with an error
\* (saveCodeFile catches what the insert throws and returns it).
\* performAutoSave does not look at the results; manualSave sets the marker
\* when no result has an error.  finally: setIsSaving(false).
saveSettled(stored) ==
  /\ saving # <<>>
  /\ LET op == saving[1]
         hasError == stored # Attempted(op.bundle)
         marks == op.kind = "auto" \/ ~hasError
     IN /\ stored \subseteq Attempted(op.bundle)
        /\ savedRows' = savedRows \cup Rows(op.bundle, stored)
        /\ lastContentRef' = IF marks THEN op.hash ELSE lastContentRef
        /\ lastSaveTime' = IF marks THEN op.timestamp ELSE lastSaveTime
        /\ lastSaved' = IF hasError THEN lastSaved ELSE <<op.bundle>>
  /\ isSaving' = FALSE
  /\ saving' = <<>>
  /\ RenderSave
  /\ last' = NoLast
  /\ UNCHANGED <<hostVars, frameVars, now, foreignPosted, gen, reqs, sent, relayed>>

\* The server stores every file of the operation.
saveStored == saving # <<>> /\ saveSettled(Attempted(saving[1].bundle))

\* The server refuses at least one file of the operation.
saveFailed ==
  /\ saving # <<>>
  /\ \E stored \in SUBSET Attempted(saving[1].bundle) :
       stored # Attempted(saving[1].bundle) /\ saveSettled(stored)

\* onAutoSaveToggle / handleCommand('autosave toggle'):
\* setAutoSaveEnabled(!autoSaveEnabled).
onAutoSaveToggle ==
  /\ autoSaveEnabled' = ~autoSaveEnabled
  /\ RenderPanel
  /\ RestartTimers(~autoSaveEnabled)
  /\ last' = NoLast
  /\ UNCHANGED <<hostVars, frameVars, now, foreignPosted, gen, reqs, sent, relayed,
                 upload, lastContentRef, lastSaveTime, isSaving, saving,
                 savedRows, lastSaved, snippets, storage, importing, calls>>

\* ------------------------------------------------- host: stored snippets
\* The properties of a CodeSnippet, in the order saveSnippet,
\* importSnippetFromJSON and handleSave's update set them.
Fields == <<"id", "name", "description", "html", "css", "javascript",
            "createdAt", "tags", "category", "updatedAt">>

\* JSON.stringify(list of snippets): per snippet its <<key, value>> pairs in
\* property order; a property whose value is undefined is left out.
JSONStringify(list) ==
  [i \in DOMAIN list |->
     LET kept == SelectSeq(Fields, LAMBDA k : list[i][k] # JSUndefined)
     IN [n \in DOMAIN kept |-> <<kept[n], list[i][kept[n]]>>]]

\* JSON.parse(text): the objects with the properties the text lists; reading
\* a property an object does not have gives undefined.
JSONParse(text) ==
  [i \in DOMAIN text |->
     [k \in {Fields[n] : n \in DOMAIN Fields} |->
        IF \E n \in DOMAIN text[i] : text[i][n][1] = k
        THEN text[i][CHOOSE n \in DOMAIN text[i] : text[i][n][1] = k][2]
        ELSE JSUndefined]]

\* The value persisted under 'gb-coder-snippets', as useLocalStorage's
\* initialiser reads it: item ? JSON.parse(item) : initialValue.
Persisted == IF storage = <<>> THEN <<>> ELSE JSONParse(storage[1])

\* setValue(updater) called from a render whose storedValue is stored:
\* valueToStore = updater(stored); setStoredValue(valueToStore);
\* localStorage.setItem(key, JSON.stringify(valueToStore)).  The custom event
\* it dispatches makes the hook's listener set the same value once more.
\* App re-renders.
setValue(stored, valueToStore) ==
  /\ snippets' = valueToStore
  /\ storage' = <<JSONStringify(valueToStore)>>
  /\ RenderPanel
  /\ RestartTimers(autoSaveEnabled)
  /\ last' = NoLast
  /\ UNCHANGED <<hostVars, frameVars, foreignPosted, gen, reqs, sent, relayed,
                 upload, autoSaveEnabled, lastContentRef, lastSaveTime, isSaving,
                 saving, savedRows, lastSaved>>

\* The snippet saveSnippet builds at clock reading t.
NewSnippet(name, h, c, j, description, t) ==
  [id |-> JSString(ToString(t)), name |-> JSString(name),
   description |-> description,
   html |-> JSString(h), css |-> JSString(c), javascript |-> JSString(j),
   createdAt |-> JSString(ToISOString(t)),
   tags |-> JSUndefined, category |-> JSUndefined, updatedAt |-> JSUndefined]

\* prev => [...prev, snippet]
WithSnippet(prev, snippet) == Append(prev, snippet)

\* prev => prev.filter(s => s.id !== id)
WithoutSnippet(prev, id) == SelectSeq(prev, LAMBDA sn : sn.id # id)

\* prev => prev.map(s => s.id === id ? {...s, ...updates, updatedAt} : s)
WithUpdate(prev, id, updates) ==
  [i \in DOMAIN prev |->
     IF prev[i].id = id
     THEN [k \in DOMAIN prev[i] |->
             IF k \in DOMAIN updates THEN updates[k] ELSE prev[i][k]]
     ELSE prev[i]]

\* saveSnippet called from a render whose storedValue is stored.
saveSnippetFrom(stored, name, h, c, j, description) ==
  /\ Len(calls) < MaxCalls
  /\ \E t \in Readings :
       LET snippet == NewSnippet(name, h, c, j, description, t)
       IN /\ now' = t
          /\ setValue(stored, WithSnippet(stored, snippet))
          /\ calls' = Append(calls, [op |-> "save", id |-> snippet.id, with |-> snippet])

\* SnippetsSidebar handleSave, no snippet being edited: onSave(name, the
\* current code, no description, tags or category), from the current render.
saveSnippet ==
  /\ saveSnippetFrom(snippets, "Demo", html, css, javascript, JSUndefined)
  /\ UNCHANGED importing

\* SnippetsSidebar handleSave while editing a listed snippet: onUpdate(id,
\* {name, description, tags, category, html, css, javascript, updatedAt}).
updateSnippet ==
  /\ Len(calls) < MaxCalls
  /\ \E i \in DOMAIN snippets : \E t \in Readings :
       LET updates == [name |-> JSString("Renamed"), description |-> JSUndefined,
                       tags |-> JSUndefined, category |-> JSUndefined,
                       html |-> JSString(html), css |-> JSString(css),
                       javascript |-> JSString(javascript),
                       updatedAt |-> JSString(ToISOString(t))]
       IN /\ snippets[i].name # JSString("Renamed")
          /\ now' = t
          /\ setValue(snippets, WithUpdate(snippets, snippets[i].id, updates))
          /\ calls' = Append(calls, [op |-> "update", id |-> snippets[i].id, with |-> updates])
  /\ UNCHANGED importing

\* The delete button of a listed snippet: deleteSnippet(snippet.id).
deleteSnippet ==
  /\ Len(calls) < MaxCalls
  /\ \E i \in DOMAIN snippets :
       /\ setValue(snippets, WithoutSnippet(snippets, snippets[i].id))
       /\ calls' = Append(calls, [op |-> "delete", id |-> snippets[i].id, with |-> JSUndefined])
  /\ UNCHANGED <<now, importing>>

\* SnippetsSidebar handleImport up to its await: the file is being read;
\* the handler keeps the onSave of the render it was called from, and with
\* it that render's storedValue.  Only the sidebar's own state changes.
handleImport ==
  /\ importing = <<>>
  /\ importing' = <<[storedValue |-> snippets]>>
  /\ last' = NoLast
  /\ UNCHANGED <<hostVars, frameVars, now, foreignPosted, panelVars, timerVars,
                 gen, reqs, sent, relayed,
                 upload, autoSaveEnabled, lastContentRef, lastSaveTime, isSaving,
                 saving, savedRows, lastSaved, snippets, storage, calls>>

\* The file is read: importSnippetFromJSON resolves and handleImport calls
\* the onSave it kept.
importRead ==
  /\ importing # <<>>
  /\ saveSnippetFrom(importing[1].storedValue, "Imported",
                     otherHTML, otherCSS, jsLater, JSString("from a file"))
  /\ importing' = <<>>

\* ------------------------------------------------------ host: file upload
uploadedHTML == "<main>uploaded</main>"

\* The files the user drops on the page: one HTML file.
UploadedFiles == {[language |-> "html", content |-> uploadedHTML]}

\* uploadFiles(files) up to its first await: setUploadState re-renders App,
\* processFile reads the file.  The function holds the handlers of the
\* render it was made by, with that render's buffers and saveCodeHistory.
uploadFiles ==
  \E f \in UploadedFiles :
    /\ upload = <<>>
    /\ upload' = <<[file |-> f, index |-> currentIndex,
                    state |-> SourceBundle(html, css, javascript)]>>
    /\ RenderPanel
    /\ RestartTimers(autoSaveEnabled)
    /\ last' = NoLast
    /\ UNCHANGED <<hostVars, frameVars, now, foreignPosted, gen, reqs, sent, relayed,
                   autoSaveEnabled, lastContentRef, lastSaveTime, isSaving, saving,
                   savedRows, lastSaved, snippets, storage, importing, calls>>

\* uploadFiles after the file was read: onHtmlUpload | onCssUpload |
\* onJsUpload of the render that made uploadFiles runs,
\* saveCodeHistory({ html, css, javascript }) with that render's values, then
\* setHtml | setCss | setJavascript(content).
onUpload ==
  /\ upload # <<>>
  /\ LET u == upload[1] IN
     /\ currentIndex < MaxEntries
     /\ Min(u.index + 1, Len(history)) < MaxEntries
     /\ saveStateOf(u.index, u.state)
     /\ SetBuffersWithin(IF u.file.language = "html" THEN u.file.content ELSE html,
                         IF u.file.language = "css" THEN u.file.content ELSE css,
                         IF u.file.language = "javascript" THEN u.file.content ELSE javascript,
                         MaxEdits)
  /\ upload' = <<>>
  /\ RenderPanel
  /\ RestartTimers(autoSaveEnabled)
  /\ last' = NoLast
  /\ UNCHANGED <<consoleLogs, hostTitle, listenerThrew, inst, channel, now, foreignPosted,
                 sent, relayed,
                 autoSaveEnabled, lastContentRef, lastSaveTime, isSaving, saving,
                 savedRows, lastSaved, snippets, storage, importing, calls>>

\* handleCommand(command) for 'history' and 'editor': setCurrentView.  The
\* history view has no PreviewPanel: switching to it unmounts the panel, the
\* effect's cleanup removes the listener and the iframe goes with its
\* document; messages already queued for the host window stay queued.
\* Switching back mounts a new panel as at the start.
switchView ==
  \E v \in {"history", "editor"} :
    /\ v # currentView
    /\ currentView' = v
    /\ IF v = "history"
       THEN /\ listeners' = listeners - 1
            /\ srcdoc' = <<>> /\ nav' = NoNav /\ inst' = NoInstance
            /\ refreshDue' = FALSE
            /\ UNCHANGED <<gen, reqs>>
       ELSE /\ Len(reqs) < MaxBurst
            /\ listeners' = listeners + 1
            /\ srcdoc' = generatePreviewContent(html, css, javascript)
            /\ nav' = [gen |-> gen + 1, req |-> Len(reqs) + 1,
                       doc |-> generatePreviewContent(html, css, javascript)]
            /\ refreshDue' = TRUE
            /\ gen' = gen + 1
            /\ reqs' = Append(reqs, [kind |-> "mount", clean |-> FALSE])
            /\ UNCHANGED inst
    /\ last' = NoLast
    /\ RestartTimers(autoSaveEnabled)
    /\ UNCHANGED <<hostVars, channel, now, foreignPosted, tabs, hookVars, sent, relayed>>

\* Variant of openInNewTab: the tab gets the HTML buffer as it is, without
\* the style, the script and the console instrumentation around it.
openInNewTabMarkupOnly ==
  /\ currentView = "editor"
  /\ Len(tabs) < MaxTabs
  /\ tabs' = Append(tabs, [doc |-> <<html>>, at |-> now])
  /\ last' = NoLast
  /\ UNCHANGED <<hostVars, frameVars, now, foreignPosted, currentView, listeners,
                 timerVars, hookVars, gen, reqs, sent, relayed>>

\* openInNewTab(): the composed document goes into a Blob opened in a new
\* tab; at is the clock reading of that moment (the handler reads no clock).
openInNewTab ==
  /\ currentView = "editor"
  /\ Len(tabs) < MaxTabs
  /\ tabs' = Append(tabs, [doc |-> generatePreviewContent(html, css, javascript),
                           at |-> now])
  /\ last' = NoLast
  /\ UNCHANGED <<hostVars, frameVars, now, foreignPosted, currentView, listeners,
                 timerVars, hookVars, gen, reqs, sent, relayed>>

\* ----------------------------------------------------------------- iframe

\* The scheduled navigation commits: the previous document instance, with
\* its timers, is discarded; the new document is parsed and its script
\* element runs to completion, posting its messages in call order.
IframeLoad ==
  /\ nav # NoNav
  /\ \E t \in Readings :
     LET ev == evaluateDocument(nav.doc, t)
         events == Events(ev.run.out, nav.gen, nav.req, 0)
     IN /\ inst' = [gen |-> nav.gen, req |-> nav.req, doc |-> nav.doc,
                    style |-> ev.style, body |-> ev.body, installed |-> ev.installed,
                    failure |-> ev.run.failure, timers |-> ev.run.timers,
                    emitted |-> Len(ev.run.out)]
        /\ channel' = channel \o events
        /\ sent' = sent \cup {Sent(e) : e \in Range(events)}
        /\ hostTitle' = IF ev.run.reached THEN "pwned" ELSE hostTitle
        /\ now' = t
  /\ nav' = NoNav
  /\ UNCHANGED <<html, css, javascript, consoleLogs, history, currentIndex, listenerThrew,
                 srcdoc, refreshDue, foreignPosted, gen, reqs, relayed>>
  /\ last' = NoLast
  /\ UNCHANGED <<panelVars, timerVars, hookVars>>

\* The next timer callback of the loaded document runs: a console call, or a
\* throw that nothing catches and the window 'error' listener reports.
TimerFire ==
  /\ inst.timers # <<>>
  /\ \E t \in Readings :
     LET s == Head(inst.timers)
         out == IF s.op = "laterCall" /\ ~CallThrows(s.args)
                THEN <<[data |-> consoleCall(s.level, s.args, t), via |-> "console"]>>
                ELSE <<[data |-> errorListener(IF s.op = "laterCall" THEN StringifyError ELSE s.text, t),
                        via |-> "onerror"]>>
         events == Events(out, inst.gen, inst.req, inst.emitted)
     IN /\ inst' = [inst EXCEPT !.timers = Tail(@), !.emitted = @ + 1]
        /\ channel' = channel \o events
        /\ sent' = sent \cup {Sent(e) : e \in Range(events)}
        /\ now' = t
  /\ last' = NoLast
  /\ UNCHANGED <<hostVars, srcdoc, nav, refreshDue, foreignPosted, gen, reqs, relayed>>
  /\ UNCHANGED <<panelVars, timerVars, hookVars>>

RECURSIVE DispatchTo(_, _, _, _)
\* The log sequence after each of n registered listeners has handled event.
DispatchTo(n, logs, event, t) ==
  IF n = 0 THEN logs ELSE handleMessage(DispatchTo(n - 1, logs, event, t), event, t)

\* The host window dispatches a message event to the listener registered in
\* PreviewPanel.tsx:129, at clock reading t.
Dispatch(event, t) ==
  /\ now' = t
  /\ consoleLogs' = DispatchTo(listeners, consoleLogs, event, t)
  /\ listenerThrew' = (listenerThrew \/ (listeners > 0 /\ event.data.nullish))
  /\ relayed' = IF listeners > 0
                THEN relayed \cup {[origin |-> event.origin, atReq |-> Len(reqs)]}
                ELSE relayed
  /\ last' = NoLast
  /\ Rerender

\* The oldest queued message of the iframe is delivered.
Deliver ==
  /\ channel # <<>>
  /\ \E t \in Readings :
       Dispatch([data |-> Head(channel).data, origin |-> Head(channel).origin,
                 atGen |-> gen], t)
  /\ channel' = Tail(channel)
  /\ UNCHANGED <<html, css, javascript, history, currentIndex, hostTitle,
                 srcdoc, nav, inst, refreshDue, foreignPosted, gen, reqs, sent>>

\* Another sender (an extension, a dev-server client, the preview's own
\* script calling postMessage directly) posts data to the host window and
\* the event is delivered.  Its place among the iframe's queued messages is
\* the moment this step is taken.
DeliverForeign ==
  /\ foreignPosted < MaxForeign
  /\ \E d \in ForeignData, t \in Readings :
       Dispatch([data |-> d, origin |-> Origin(0, 0, foreignPosted + 1, "foreign"),
                 atGen |-> gen], t)
  /\ foreignPosted' = foreignPosted + 1
  /\ UNCHANGED <<html, css, javascript, history, currentIndex, hostTitle,
                 frameVars, gen, reqs, sent>>

\* The preview of a bundle whose script is jsInterval logs every 250 ms.  One
\* such call, from posting to relay: the shadowed console.log posts, the
\* listener hands the record to handleConsoleLog, App re-renders.
previewLogs ==
  /\ javascript = jsInterval
  /\ Len(consoleLogs) < MaxLogs
  /\ \E t \in Readings :
       /\ now' = t
       /\ consoleLogs' =
            handleMessage(consoleLogs,
                          [data |-> consoleCall("log", <<JSString("tick")>>, t),
                           origin |-> Origin(gen, Len(reqs), Len(consoleLogs) + 1, "console"),
                           atGen |-> gen], t)
  /\ last' = NoLast
  /\ UNCHANGED <<html, css, javascript, history, currentIndex, hostTitle, listenerThrew,
                 frameVars, foreignPosted, gen, reqs, sent, relayed>>
  /\ Rerender

Next ==
  \/ EditorChange
  \/ clearConsoleLogs \/ handleCommand
  \/ loadSnippet \/ loadCodeFile \/ resetCode
  \/ handleUndo \/ handleRedo
  \/ RefreshEffect \/ RefreshClick
  \/ IframeLoad \/ TimerFire
  \/ Deliver \/ DeliverForeign

Spec == Init /\ [][Next]_vars

\* A typing session: the user only edits, the preview follows.  React flushes
\* a scheduled passive effect and the browser completes a navigation it has
\* started, hence the fairness conditions.
NextSession ==
  \/ Typing
  \/ RefreshEffect
  \/ IframeLoad
  \/ Deliver

\* One preview run: the page is opened with a given script in the JavaScript
\* buffer and left alone.
RunScripts == {defaultJS, jsLevels, jsArgs, jsCircular, jsBoom}
InitRun == \E j \in RunScripts : InitWith(defaultHTML, defaultCSS, j)
NextRun ==
  \/ RefreshEffect
  \/ IframeLoad
  \/ Deliver

PreviewRun == InitRun /\ [][NextRun]_vars

Session == Init /\ [][NextSession]_vars

\* A typing session in which the user also switches between the editor and
\* the history view.
NextViews ==
  \/ NextSession
  \/ switchView

Views == Init /\ [][NextViews]_vars

\* The composer's inputs: any three texts, empty and broken ones included.
HTMLInputs == {"", defaultHTML, brokenHTML}
CSSInputs == {"", defaultCSS, brokenCSS}
JSInputs == {"", defaultJS, jsSyntax}
InitCompose ==
  \E h \in HTMLInputs, c \in CSSInputs, j \in JSInputs : InitWith(h, c, j)
NextCompose ==
  \/ openInNewTab
  \/ RefreshEffect
  \/ IframeLoad
  \/ Deliver

Compose == InitCompose /\ [][NextCompose]_vars
FairSession == Session /\ WF_vars(RefreshEffect) /\ WF_vars(IframeLoad)

\* An editing session with the history: the user edits, undoes, redoes and
\* uploads a file, the debounced save runs.  Auto-save is switched off.
InitHistory == InitApp(defaultHTML, defaultCSS, defaultJS, FALSE)
EditingChange == onChange(MaxEdits)
UndoClick == handleUndoWithin(MaxEdits)
RedoClick == handleRedoWithin(MaxEdits)
NextHistory ==
  \/ EditingChange
  \/ debouncedSave
  \/ Tick
  \/ UndoClick
  \/ RedoClick
  \/ uploadFiles
  \/ onUpload

History == InitHistory /\ [][NextHistory]_vars

\* The user edits while the preview's script keeps logging, and clears the
\* console when it has filled up.  Time passes, and the callback of an
\* expired timeout runs: hence the fairness conditions.
InitLogging == InitApp(defaultHTML, defaultCSS, jsInterval, FALSE)
DraftChange == onChange(MaxEntries)
ClearFullLog == Len(consoleLogs) >= MaxLogs /\ clearConsoleLogs
NextLogging ==
  \/ DraftChange
  \/ debouncedSave
  \/ Tick
  \/ previewLogs
  \/ ClearFullLog

FairLogging ==
  InitLogging /\ [][NextLogging]_vars /\ WF_vars(Tick) /\ WF_vars(debouncedSave)

\* An editing session with saving: the user edits, saves by hand and
\* switches auto-save off and on; the timers run.
NextStored ==
  \/ DraftChange
  \/ debouncedSave
  \/ Tick
  \/ performAutoSave
  \/ manualSave
  \/ saveStored
  \/ onAutoSaveToggle

\* The server stores every file it is given.
Stored == Init /\ [][NextStored]_vars

\* The server may refuse files.
NextAutoSave ==
  \/ NextStored
  \/ saveFailed

AutoSave == Init /\ [][NextAutoSave]_vars

\* The snippet list: the user saves the code as a snippet, renames and
\* deletes listed snippets, imports snippets from files.
NextSnippets ==
  \/ saveSnippet
  \/ updateSnippet
  \/ deleteSnippet
  \/ handleImport
  \/ importRead

SnippetList == Init /\ [][NextSnippets]_vars

\* Auto-save while the preview's script keeps logging: the user edits,
\* clears the console when it has filled up, switches auto-save off and on;
\* the server stores what it is given.  Time passes, expired timeouts run
\* their callbacks and the server answers: hence the fairness conditions.
InitSaving == InitApp(defaultHTML, defaultCSS, jsInterval, TRUE)
NextSaving ==
  \/ DraftChange
  \/ debouncedSave
  \/ Tick
  \/ performAutoSave
  \/ saveStored
  \/ previewLogs
  \/ ClearFullLog
  \/ onAutoSaveToggle

FairSaving ==
  /\ InitSaving /\ [][NextSaving]_vars
  /\ WF_vars(Tick) /\ WF_vars(debouncedSave)
  /\ WF_vars(performAutoSave) /\ WF_vars(saveStored)

\* ------------------------------------------------------------------ claims
LogLevels == {"log", "warn", "error", "info"}

\* The console shape: tag "console", a level among the four, a string
\* message and a string timestamp.
HasConsoleShape(type, level, message, timestamp) ==
  /\ type = JSString("console")
  /\ level \in {JSString(l) : l \in LogLevels}
  /\ message.t = "string"
  /\ timestamp.t = "string"

LogIndices == 1..Len(consoleLogs)

\* C1: a message that does not have the console shape is ignored by the
\* host's listener, so no record of the log sequence was built from one:
\* every record carries a level among the four, a string message and a string
\* timestamp.
C1_NonConsoleShapeIgnored ==
  \A i \in LogIndices :
    HasConsoleShape(JSString("console"), consoleLogs[i].type, consoleLogs[i].message,
                    consoleLogs[i].timestamp)

\* C2: the iframe's sandbox permissions contain script execution and not
\* same-origin access, and nothing the embedded document runs has written
\* host-page state.
C2_SandboxWithholdsSameOrigin ==
  /\ "allow-scripts" \in SandboxFlags
  /\ "allow-same-origin" \notin SandboxFlags
  /\ hostTitle = "GB Coder"

\* C3: the ids of the records in the log sequence are pairwise distinct.
C3_LogIdsDistinct ==
  \A i, j \in LogIndices : i # j => consoleLogs[i].id # consoleLogs[j].id

\* C4: after a render for a changed bundle that began when everything of the
\* previous run had been relayed, the listener receives only messages of the
\* new bundle's script, and each of that script's messages once.
C4_RerenderRelaysEachCallOnce ==
  \A r \in 2..Len(reqs) :
    (reqs[r].kind = "change" /\ reqs[r].clean) =>
      /\ \A m \in relayed :
           (m.atReq = r /\ m.origin.via # "foreign") => m.origin.req = r
      /\ \A m1, m2 \in relayed :
           (m1.origin.req = r /\ m2.origin.req = r /\ m1.origin.seq = m2.origin.seq)
             => m1.origin.gen = m2.origin.gen

\* The first half of C4 alone: nothing of an earlier run is relayed after
\* such a render.
C4_OnlyNewBundleRelayed ==
  \A r \in 2..Len(reqs) :
    (reqs[r].kind = "change" /\ reqs[r].clean) =>
      \A m \in relayed :
        (m.atReq = r /\ m.origin.via # "foreign") => m.origin.req = r

\* C5: records that stem from one document instance appear in the log in the
\* order in which that instance posted them.
C5_OrderWithinInstance ==
  \A i, j \in LogIndices :
    (i < j /\ consoleLogs[i].origin.gen # 0
           /\ consoleLogs[i].origin.gen = consoleLogs[j].origin.gen)
      => consoleLogs[i].origin.seq < consoleLogs[j].origin.seq

C5_Witness ==
  \E i, j \in LogIndices :
    /\ i < j /\ consoleLogs[i].origin.gen # 0
    /\ consoleLogs[i].origin.gen = consoleLogs[j].origin.gen
    /\ consoleLogs[i].origin.seq < consoleLogs[j].origin.seq

\* A queued message of an instance older than the last srcdoc write is
\* delivered in this step.
StaleDelivery ==
  /\ channel # <<>> /\ channel' = Tail(channel)
  /\ Head(channel).origin.gen < gen

\* The log sequence grows by one record at its end, built from the message
\* at the head of the queue.
HeadAppended ==
  /\ Len(consoleLogs') = Len(consoleLogs) + 1
  /\ SubSeq(consoleLogs', 1, Len(consoleLogs)) = consoleLogs
  /\ consoleLogs'[Len(consoleLogs')].origin = Head(channel).origin
  /\ consoleLogs'[Len(consoleLogs')].message = Head(channel).data.message

SameOrExtended ==
  \/ consoleLogs' = consoleLogs
  \/ /\ Len(consoleLogs') = Len(consoleLogs) + 1
     /\ SubSeq(consoleLogs', 1, Len(consoleLogs)) = consoleLogs

\* C7 as stated: every host step other than the explicit clear (the clear
\* button, the terminal's clear and run commands) leaves the log sequence
\* unchanged or extends it by one record at its end.
C7_RemovedOnlyByClear ==
  [][SameOrExtended \/ (consoleLogs' = <<>> /\ (clearConsoleLogs \/ handleCommand))]_vars

\* C7 as amended: records are removed only all at once, by the clear button,
\* the terminal's clear and run commands, and by loading a snippet, loading
\* a code file or resetting the code; every other step leaves the sequence
\* unchanged or extends it by one record at its end.
C7_RemovedOnlyInBulk ==
  [][\/ SameOrExtended
     \/ /\ consoleLogs' = <<>>
        /\ (clearConsoleLogs \/ handleCommand \/ loadSnippet \/ loadCodeFile \/ resetCode)]_vars

C7_Witness == last = "loadSnippet" /\ consoleLogs = <<>>

Thrown(j) ==
  LET b == ParseScript(j).body
      first == CHOOSE i \in DOMAIN b :
                 b[i].op = "throw" /\ \A k \in DOMAIN b : b[k].op = "throw" => i <= k
  IN b[first].text

\* The messages the loaded instance has posted, and those of them that
\* report the Error its script threw.
PostedByInst == {e \in sent : e.origin.gen = inst.gen}
ThrowReports ==
  {e \in PostedByInst :
     e.level = JSString("error") /\ e.message = JSString(Thrown(inst.doc[6]))}

\* C9: when the user script of the loaded document threw an Error
\* synchronously, exactly one error-level message carrying the Error's
\* message was posted, none came through the window 'error' listener, the
\* message reaches the listener, and the document's HTML and CSS are rendered.
C9_SyncThrowReportedOnce ==
  inst.failure = "throw" =>
    /\ Cardinality(ThrowReports) = 1
    /\ \A e \in PostedByInst : e.origin.via # "onerror"
    /\ (\A k \in DOMAIN channel : channel[k].origin.gen # inst.gen)
         => \A e \in ThrowReports : \E m \in relayed : m.origin = e.origin
    /\ inst.body = inst.doc[4] /\ inst.style = inst.doc[2]
    /\ inst.doc = generatePreviewContent(inst.body, inst.style, inst.doc[6])

C9_Witness ==
  /\ inst.failure = "throw"
  /\ inst.body = otherHTML
  /\ \E e \in ThrowReports : \E m \in relayed : m.origin = e.origin

\* C10: in every loaded document the instrumentation is installed, and a
\* failed user script (one that does not parse, or that throws) has posted
\* an error-level message.
C10_FailureNeverSilent ==
  inst.gen # 0 =>
    /\ inst.installed
    /\ inst.failure # "none" =>
         \E e \in PostedByInst : e.level = JSString("error")

\* C11: handling an inbound message never raises in the host's listener,
\* whatever its payload (null, undefined, a primitive, an object lacking the
\* expected fields).
C11_ListenerNeverRaises == ~listenerThrew

\* The execution context is Idle (no document loaded) or Running: a whole
\* document composed from some bundle is loaded, its style and body rendered.
ContextIdle == inst = NoInstance
ContextRunning ==
  /\ inst.gen \in 1..gen
  /\ inst.doc = generatePreviewContent(inst.doc[4], inst.doc[2], inst.doc[6])
  /\ inst.style = inst.doc[2] /\ inst.body = inst.doc[4]

\* C12: every render (a write of the iframe's srcdoc) takes effect whatever
\* the context's state and the bundle: the content becomes exactly the
\* document composed from the current bundle and a navigation to a brand-new
\* instance with that document is started; an instance that replaces another
\* is a new one holding exactly the scheduled document; the context is never
\* in a state other than Idle and Running.
C12_RenderReplacesContext ==
  [][/\ gen' # gen =>
          /\ gen' = gen + 1
          /\ srcdoc' = generatePreviewContent(html', css', javascript')
          /\ nav' = [gen |-> gen', req |-> Len(reqs'), doc |-> srcdoc']
     /\ inst'.gen # inst.gen =>
          /\ inst'.gen > inst.gen
          /\ inst'.gen = nav.gen /\ inst'.doc = nav.doc
     /\ (ContextIdle \/ ContextRunning)'
    ]_vars

C12_Witness ==
  /\ inst.failure = "syntax" /\ ContextRunning
  /\ nav # NoNav /\ nav.gen > inst.gen

\* A step changes a source buffer; the effect of the preceding change has not
\* been flushed yet (the changes follow each other within one burst).
BufferChange == <<html', css', javascript'>> # <<html, css, javascript>>
InBurst == refreshDue /\ reqs[Len(reqs)].kind = "change"

\* C13: renders are debounced: a change that follows another within a burst
\* does not start a render of its own.
C13_BurstRendersOnce ==
  [][(BufferChange /\ InBurst) => (gen' = gen /\ srcdoc' = srcdoc)]_vars

\* The bundles a typing session can reach, and the loaded instance showing
\* exactly the document composed from bundle b.
SessionBundles ==
  {SourceBundle(h, defaultCSS, j) : h \in {defaultHTML, otherHTML}, j \in {defaultJS, jsSyntax}}
Shown(b) ==
  /\ inst.gen # 0
  /\ inst.doc = generatePreviewContent(b.html, b.css, b.javascript)
  /\ inst.body = b.html /\ inst.style = b.css /\ inst.doc[6] = b.javascript

\* C14: once the buffers stop changing, at bundle b, the iframe eventually
\* holds the document composed from b and stays on it.
C14_EventuallyCurrent ==
  \A b \in SessionBundles :
    <>[](SourceBundle(html, css, javascript) = b) => <>[]Shown(b)

C14_Witness ==
  /\ Len(reqs) >= 3 /\ javascript = jsSyntax /\ html = otherHTML
  /\ nav = NoNav /\ ~refreshDue
  /\ Shown(SourceBundle(html, css, javascript))

\* The script text j is a list of console calls and nothing else, so that the
\* n-th message of an instance running it stems from its n-th statement.
OnlyCalls(j) ==
  LET b == ParseScript(j).body IN \A i \in DOMAIN b : b[i].op = "call"
PlainCalls(j) ==
  LET b == ParseScript(j).body
  IN OnlyCalls(j) /\ \A i \in DOMAIN b : ~CallThrows(b[i].args)
SingleString(args) == Len(args) = 1 /\ args[1].t = "string"

\* The records of the log built from the message of origin o.
RecordsOf(o) == {i \in LogIndices : consoleLogs[i].origin = o}

C16_ArgumentsJoined ==
  LET b == ParseScript(javascript).body IN
  (OnlyCalls(javascript) /\ inst.gen # 0) =>
    /\ inst.emitted = Len(b)
    /\ \A e \in PostedByInst :
         /\ e.level = JSString(b[e.origin.seq].level)
         /\ e.message = JSString(JoinArgs(b[e.origin.seq].args))

\* The part of C16 that holds: a call whose arguments are strings, numbers,
\* null, undefined and acyclic objects posts one message with the joined text.
C16_SerialisableArgumentsJoined ==
  LET b == ParseScript(javascript).body IN
  (PlainCalls(javascript) /\ inst.gen # 0) =>
    /\ inst.emitted = Len(b)
    /\ \A e \in PostedByInst :
         /\ e.level = JSString(b[e.origin.seq].level)
         /\ e.message = JSString(JoinArgs(b[e.origin.seq].args))
    /\ javascript = jsArgs =>
         {e.message.v : e \in PostedByInst} =
           {"a 1 {\n  \"x\": 1\n}", "", "null undefined b c"}

SandboxStep == IframeLoad \/ TimerFire \/ Deliver \/ DeliverForeign

\* C18: whatever the embedded document does, host state other than the log
\* sequence stays as it is: the source buffers, the history and the host
\* page itself.
C18_SandboxTouchesOnlyLog ==
  [][SandboxStep =>
       UNCHANGED <<html, css, javascript, history, currentIndex, hostTitle>>]_vars

\* The three texts a composed document was made from.
BundleOf(doc) == SourceBundle(doc[4], doc[2], doc[6])
Recomposed(doc) ==
  generatePreviewContent(BundleOf(doc).html, BundleOf(doc).css, BundleOf(doc).javascript)

C20_ComposeTotalAndPure ==
  [][openInNewTab =>
       /\ UNCHANGED <<hostVars, frameVars, now, foreignPosted, currentView, listeners>>
       /\ LET doc == tabs'[Len(tabs')].doc
          IN /\ Len(doc) = 7
             /\ doc[4] = html /\ doc[2] = css /\ doc[6] = javascript
             /\ doc[1] = DocHead /\ doc[3] = DocMid /\ doc[5] = DocScriptOpen
             /\ doc[7] = DocTail]_vars

C20_Witness ==
  /\ tabs # <<>>
  /\ tabs[1].doc[4] = brokenHTML /\ tabs[1].doc[2] = "" /\ tabs[1].doc[6] = jsSyntax

\* The document the iframe holds, is navigating to or has loaded for the
\* buffers as they are: what refreshPreview() writes for them.
RenderedFor(h, c, j) ==
  {srcdoc}
    \cup (IF nav # NoNav THEN {nav.doc} ELSE {})
    \cup (IF inst.gen # 0 /\ BundleOf(inst.doc) = SourceBundle(h, c, j)
          THEN {inst.doc} ELSE {})

\* C21: "Open in New Tab" hands the new tab exactly the document a render of
\* the same three buffers puts into the iframe (the one in srcdoc, the one
\* being navigated to, the one loaded), and the step changes neither the
\* iframe (attribute, navigation, loaded instance, queued messages) nor the
\* console log.
C21_StandaloneMatchesRender ==
  [][openInNewTab =>
       /\ \A doc \in RenderedFor(html, css, javascript) : tabs'[Len(tabs')].doc = doc
       /\ UNCHANGED <<frameVars, consoleLogs>>]_vars

C21_Witness ==
  /\ tabs # <<>> /\ inst.gen = 2 /\ nav = NoNav /\ channel # <<>>
  /\ tabs[1].doc = inst.doc /\ tabs[1].doc = srcdoc

\* A step in which the iframe posts messages: the queue grows.
PostStep == Len(channel') > Len(channel)

\* A step in which the oldest queued message is handled and a record is
\* appended to the log.
RelayStep ==
  /\ channel # <<>> /\ channel' = Tail(channel)
  /\ Len(consoleLogs') = Len(consoleLogs) + 1

\* C22: the record appended for a message carries the message's level, text
\* and timestamp as they are, and the timestamp is the ISO form of the clock
\* reading at which the instrumentation posted the message (the console call
\* or the caught error), whatever the clock says when the host handles it.
C22_RecordCarriesMessage ==
  [][/\ PostStep =>
          \A i \in (Len(channel) + 1)..Len(channel') :
            channel'[i].data.timestamp = JSString(ToISOString(now'))
     /\ RelayStep =>
          LET log == consoleLogs'[Len(consoleLogs')]
              data == Head(channel).data
          IN /\ log.type = data.level
             /\ log.message = data.message
             /\ log.timestamp = data.timestamp]_vars

C22_Witness ==
  \E i \in LogIndices :
    /\ consoleLogs[i].timestamp = JSString(ToISOString(0))
    /\ consoleLogs[i].id = DateNowToString(1)
    /\ consoleLogs[i].type = JSString("error")

\* C23: whatever saveState, undo and redo calls were made, those of handlers
\* captured by an earlier render included, the index points into the list:
\* 0 <= currentIndex < history.length, and currentState is the entry there.
C23_IndexWithinHistory ==
  /\ 0 <= currentIndex /\ currentIndex < Len(history)
  /\ currentState = history[currentIndex + 1].state

\* A step that changes the history list: a saveState.
SaveStep == history' # history

\* C24: a saveState drops every entry after the current index and puts the
\* saved state last; right after it the index is the last position, canRedo
\* is false and redo() returns null.
C24_SaveEndsTheList ==
  [][SaveStep =>
       /\ history' = Append(SubSeq(history, 1, Min(currentIndex + 1, Len(history))),
                            history'[Len(history')])
       /\ currentIndex' = Len(history') - 1
       /\ redo(history', currentIndex').result = <<>>]_vars

\* C25: where canUndo holds, undo() then redo() returns the state that was
\* current and the index is back where it was; where canUndo (canRedo) does
\* not hold, undo() (redo()) returns null and moves nothing; and handleUndo
\* and handleRedo leave the history list as it is, with the buffers equal to
\* the entry now current, so that the debounced save has nothing to store.
C25_UndoRedoRoundTrip ==
  /\ [](canUndo =>
          LET u == undo(history, currentIndex)
              r == redo(history, currentIndex + u.step)
          IN /\ r.result = <<currentState>>
             /\ currentIndex + u.step + r.step = currentIndex)
  /\ [](~canUndo => undo(history, currentIndex) = [step |-> 0, result |-> <<>>, threw |-> FALSE])
  /\ [](~canRedo => redo(history, currentIndex) = [step |-> 0, result |-> <<>>, threw |-> FALSE])
  /\ [][(UndoClick \/ RedoClick) =>
          /\ history' = history
          /\ currentIndex' # currentIndex =>
                SourceBundle(html', css', javascript') = currentState']_vars

\* The buffers differ from the history entry now current.
Unsaved == SourceBundle(html, css, javascript) # currentState

\* C26: once the buffers differ from the current history state, an entry
\* with the buffers is eventually stored (the buffers become the current
\* history state), also while console messages keep arriving and
\* re-rendering App.
C26_ChangeEventuallySaved == Unsaved ~> ~Unsaved

\* The auto-save timeout runs and performAutoSave returns without saving.
AutoSaveSkipped == performAutoSave /\ saving' = <<>>

\* The auto-save timeout runs and performAutoSave starts a save.
AutoSaveStarted == performAutoSave /\ saving' # <<>>

\* C27: an auto-save is skipped exactly when the three buffers are the
\* content of the last save whose files were all stored; any difference, at
\* whatever position, makes it save.
C27_SkippedIffIdentical ==
  [][/\ AutoSaveSkipped => lastSaved = <<SourceBundle(html, css, javascript)>>
     /\ AutoSaveStarted => lastSaved # <<SourceBundle(html, css, javascript)>>]_vars

\* A save operation ends in this step.
SaveEnds == saving # <<>> /\ saving' = <<>>

\* C28: the marker of the last save (hash and lastSaveTime) changes only at
\* the end of an operation all of whose files were stored, for auto-save as
\* for manual save; and isSaving is false once an operation has ended.
C28_MarkerOnlyOnSuccess ==
  [][/\ <<lastContentRef, lastSaveTime>>' # <<lastContentRef, lastSaveTime>> =>
          /\ SaveEnds
          /\ Rows(saving[1].bundle, Attempted(saving[1].bundle)) \subseteq savedRows'
     /\ SaveEnds => ~isSaving']_vars

\* Auto-save is on and the buffers are not the content stored last.
Unsynced == autoSaveEnabled /\ lastSaved # <<SourceBundle(html, css, javascript)>>

\* A re-render that changes none of html, css, javascript and enabled: a
\* relayed console message, the console being cleared.
LogRender == previewLogs \/ ClearFullLog

\* C29: while auto-save is on, changed content that is not stored yet is
\* eventually auto-saved; a re-render that changes none of html, css,
\* javascript, interval and enabled leaves the auto-save timer running as it
\* was; and no auto-save starts while auto-save is off.
C29_EventuallyAutoSaved ==
  /\ Unsynced ~> ~Unsynced
  /\ [][LogRender => autoTimer' = autoTimer]_vars
  /\ [][AutoSaveStarted => autoSaveEnabled]_vars

RECURSIVE AppliedTo(_)
\* The updaters calls[1..n] applied in order to the initial value [].
AppliedTo(n) ==
  IF n = 0 THEN <<>>
  ELSE LET prev == AppliedTo(n - 1)
           call == calls[n]
       IN CASE call.op = "save" -> WithSnippet(prev, call.with)
            [] call.op = "update" -> WithUpdate(prev, call.id, call.with)
            [] call.op = "delete" -> WithoutSnippet(prev, call.id)

\* C30: after any sequence of setValue calls the value in memory and the
\* value persisted under the key are equal, and they are what the calls
\* applied in order lead to.
C30_UpdatesNeverLost == snippets = Persisted /\ snippets = AppliedTo(Len(calls))
====
